---- MODULE Spec2Model ----
(***************************************************************************)
(* Metrics push task of the bridge node                                    *)
(* (crates/sui-bridge/src/metrics.rs: MetricsPushClient,                   *)
(* start_metrics_push_task and its inner push_metrics).                    *)
(*                                                                         *)
(* The clock `now` counts seconds since UNIX_EPOCH.  The background task   *)
(* is modelled by its position `pc`; time passes only where the task is    *)
(* suspended: before it is first polled, inside interval.tick().await      *)
(* (the Tick action sleeps until the deadline), inside send().await and    *)
(* inside response.text().await.  The timer wakes the task at its deadline  *)
(* (tokio's 5 ms lateness tolerance is below the clock's resolution).      *)
(* The library calls are modelled by what they do: Url::parse by the       *)
(* presence of scheme and host, the protobuf encoder by a length-delimited *)
(* field sequence that rejects a family without samples, snappy by a       *)
(* run-length code, MetricsPushClient::new by a build that may fail.       *)
(* push_interval_seconds is drawn from positive values.                    *)
(***************************************************************************)
EXTENDS Integers, Sequences, FiniteSets, TLC

\* ---------------------------------------------------------------- bounds
MaxTime == 6

\* ------------------------------------------------------ program constants
DEFAULT_METRICS_PUSH_INTERVAL == 60
MillisPerSec == 1000

\* ------------------------------------------------------------- helpers
Max(a, b) == IF a >= b THEN a ELSE b

Last(s) == s[Len(s)]

\* ------------------------------------------------------- configuration
\* Option<T> is a sequence of length 0 (None) or 1 (Some).
None == <<>>
Some(x) == <<x>>

\* A push_url string, split into scheme, "://" separator and the rest.
GoodUrl == <<"https", "://", "proxy/publish/metrics">>
RelativeUrl == <<"", "", "proxy/publish/metrics">>
NoHostUrl == <<"https", "://", "">>
UrlStrings == {GoodUrl, RelativeUrl, NoHostUrl}

PushIntervals == {None, Some(2), Some(3)}

MetricsConfig == [push_interval_seconds : PushIntervals, push_url : UrlStrings]

Configs == {None} \cup {Some(c) : c \in MetricsConfig}

\* reqwest::Url::parse: an absolute URL has a scheme and, for https, a host.
\* (Variant: a parser that accepts every string.)
UrlParseAnything(u) == TRUE

UrlParse(u) == u[1] # "" /\ u[2] = "://" /\ u[3] # ""

\* push_interval_seconds.map(Duration::from_secs).unwrap_or(DEFAULT)
\* (Variant: the configured value is ignored.)
IntervalOfDefaultOnly(c) == DEFAULT_METRICS_PUSH_INTERVAL

IntervalOf(c) ==
    IF c.push_interval_seconds = None
    THEN DEFAULT_METRICS_PUSH_INTERVAL
    ELSE c.push_interval_seconds[1]

\* The match on metrics_config: Some(MetricsConfig {..}) yields the interval
\* and the url string, `_ => return` yields nothing.
\* (Variant: a missing configuration falls back to defaults.)
MatchConfigDefaulting(mc) ==
    IF mc = None
    THEN Some([interval |-> DEFAULT_METRICS_PUSH_INTERVAL, url |-> GoodUrl])
    ELSE Some([interval |-> IntervalOf(mc[1]), url |-> mc[1].push_url])

MatchConfig(mc) ==
    IF mc = None
    THEN None
    ELSE Some([interval |-> IntervalOf(mc[1]), url |-> mc[1].push_url])

\* --------------------------------------------------- registry snapshots
\* A metric family has a name and a sequence of samples; a sample has a
\* label, a value and a timestamp in milliseconds.
Sample(l, v, t) == [label |-> l, value |-> v, timestamp_ms |-> t]

Family(n, ms) == [name |-> n, metric |-> ms]

Snapshots ==
    { <<>>,
      << Family("requests_ok", << Sample("a", 1, 1), Sample("b", 2, 7) >>) >>,
      << Family("requests_ok", << Sample("a", 1, 7) >>),
         Family("gas_coin_balance", << Sample("", 5, 3), Sample("", 5, 3) >>) >>,
      << Family("requests_ok", << Sample("a", 1, 1) >>),
         Family("err_requests", << >>) >> }

\* for mf in metric_families.iter_mut() { for m in mf.mut_metric() {
\*     m.set_timestamp_ms(now) } }
\* (Variant: only the first family is stamped.)
StampFirstFamilyOnly(mfs, t) ==
    [i \in 1..Len(mfs) |->
        IF i = 1
        THEN [mfs[i] EXCEPT !.metric =
                [j \in 1..Len(mfs[i].metric) |->
                    [mfs[i].metric[j] EXCEPT !.timestamp_ms = t]]]
        ELSE mfs[i]]

Stamp(mfs, t) ==
    [i \in 1..Len(mfs) |->
        [mfs[i] EXCEPT !.metric =
            [j \in 1..Len(mfs[i].metric) |->
                [mfs[i].metric[j] EXCEPT !.timestamp_ms = t]]]]

\* ProtobufEncoder::encode: each family is checked, then written
\* length-delimited: name, number of samples, then the samples' fields.
\* A field on the wire is a string or an integer.
StrField(s) == [kind |-> "string", s |-> s, n |-> 0]

IntField(n) == [kind |-> "int", s |-> "", n |-> n]

RECURSIVE WriteSamples(_)
WriteSamples(ms) ==
    IF ms = <<>> THEN <<>>
    ELSE << StrField(ms[1].label), IntField(ms[1].value), IntField(ms[1].timestamp_ms) >>
         \o WriteSamples(Tail(ms))

RECURSIVE WriteFamilies(_)
WriteFamilies(mfs) ==
    IF mfs = <<>> THEN <<>>
    ELSE << StrField(mfs[1].name), IntField(Len(mfs[1].metric)) >> \o WriteSamples(mfs[1].metric)
         \o WriteFamilies(Tail(mfs))

\* check_metric_family: a family without samples or without a name is an error.
EncodeOk(mfs) ==
    \A i \in 1..Len(mfs) : mfs[i].name # "" /\ Len(mfs[i].metric) > 0

\* The inverse of WriteFamilies, as the receiving proxy decodes the body.
RECURSIVE ReadSamples(_, _)
ReadSamples(buf, n) ==
    IF n = 0 THEN <<>>
    ELSE << Sample(buf[1].s, buf[2].n, buf[3].n) >>
         \o ReadSamples(SubSeq(buf, 4, Len(buf)), n - 1)

RECURSIVE ReadFamilies(_)
ReadFamilies(buf) ==
    IF buf = <<>> THEN <<>>
    ELSE << Family(buf[1].s, ReadSamples(SubSeq(buf, 3, Len(buf)), buf[2].n)) >>
         \o ReadFamilies(SubSeq(buf, 3 + 3 * buf[2].n, Len(buf)))

\* snap::raw::Encoder::compress_vec: a lossless whole-buffer compression,
\* modelled as run-length encoding into <<count, item>> pairs.
RECURSIVE CompressVec(_)
CompressVec(buf) ==
    IF buf = <<>> THEN <<>>
    ELSE LET rest == CompressVec(Tail(buf))
         IN  IF rest # <<>> /\ rest[1][2] = buf[1]
             THEN << << rest[1][1] + 1, buf[1] >> >> \o Tail(rest)
             ELSE << << 1, buf[1] >> >> \o rest

RECURSIVE DecompressVec(_)
DecompressVec(c) ==
    IF c = <<>> THEN <<>>
    ELSE [i \in 1..c[1][1] |-> c[1][2]] \o DecompressVec(Tail(c))

\* ------------------------------------------------------------ responses
Statuses == {200, 500}

\* response.status().is_success()
\* (Variant: the upper end of the 2xx range is not checked.)
IsSuccessNoUpperBound(status) == status >= 200

IsSuccess(status) == status >= 200 /\ status <= 299

\* A transport result: Err(reqwest::Error) or a response with a status.
TransportResults ==
    {[kind |-> "error", status |-> 0]} \cup {[kind |-> "response", status |-> st] : st \in Statuses}

\* What follows send().await: `?` returns the error, a success status falls
\* through to Ok(()), any other status goes on to read the body.
\* (Variant: a transport error sends the request again.)
StepAfterSendRetrying(r) ==
    IF r.kind = "error" THEN "send"
    ELSE IF IsSuccess(r.status) THEN "Ok" ELSE "read_body"

StepAfterSend(r) ==
    IF r.kind = "error" THEN "Err"
    ELSE IF IsSuccess(r.status) THEN "Ok" ELSE "read_body"

\* ------------------------------------------------------------- the timer
\* MissedTickBehavior::Skip: the next deadline is the first multiple of the
\* period, counted from the missed deadline, that lies after now.
\* (Variant: MissedTickBehavior::Burst, tokio's default.)
NextTimeoutBurst(timeout, t, period) == timeout + period

NextTimeout(timeout, t, period) == t + period - ((t - timeout) % period)

\* tokio::time::interval(period), created at time t: the first tick is due
\* at once.
\* (Variant: interval_at(t + period, period), first tick one period later.)
FirstDeadlineAfterPeriod(t, period) == t + period

FirstDeadline(t, period) == t

\* Interval::poll_tick: a tick that fires late is rescheduled by the
\* missed-tick behaviour, a tick on time one period after its deadline.
NextDeadline(timeout, t, period) ==
    IF t > timeout THEN NextTimeout(timeout, t, period) ELSE timeout + period

\* interval.tick().await is only polled at the top of the loop.
\* (Variant: a tick is also taken while a request is outstanding.)
TickReadyWhilePushing(p) == p \in {"tick", "await_send", "read_body"}

TickReady(p) == p = "tick"

\* `if let Err(error) = push_metrics(..)`: every error rebuilds the client.
\* (Variants: never, after every attempt, only after transport failures,
\* only after a response with a bad status.)
NeedsRebuildNever(outcome) == FALSE

NeedsRebuildOnStatusOnly(outcome) == outcome = "status"

NeedsRebuildAlways(outcome) == TRUE

NeedsRebuildOnTransportOnly(outcome) == outcome \in {"transport", "status"}

NeedsRebuild(outcome) == outcome # "ok"

\* ------------------------------------------------------------- the client
\* The NetworkKeyPair and the RegistryService handle the caller passes in.
KeyPair == [private |-> "metrics_key.private", public |-> "metrics_key.public"]

Registry == "registry_service"

\* MetricsPushClient::new, the n + 1st call: a new self-signed certificate
\* over the private key and a new reqwest client presenting it.
\* (Variant: the certificate of the first call is kept and handed out again.)
NewClientCachedCertificate(key, n) ==
    [private_key |-> key.private, certificate |-> 1, transport |-> n + 1]

NewClient(key, n) ==
    [private_key |-> key.private, certificate |-> n + 1, transport |-> n + 1]

\* Where the task is after `client = MetricsPushClient::new(..)` in the loop:
\* back at the tick, or ended by the panic of the unwrap in new.
\* (Variant: the build error is dropped and the loop goes on.)
AfterRebuildIgnoringError(buildOk) == "tick"

AfterRebuild(buildOk) == IF buildOk THEN "tick" ELSE "task_panic"

\* ------------------------------------------------------------------ state
VARIABLES
    metrics_key_pair, \* the NetworkKeyPair passed by the caller
    registry,         \* the RegistryService handle passed by the caller
    clients,          \* every MetricsPushClient built so far, in order
    buildFailed,      \* a MetricsPushClient::new call panicked
    taskStart,        \* None, or the time the spawned task first ran
    metrics_config,   \* the Option<MetricsConfig> passed by the caller
    pc,               \* position of the caller / of the background task
    now,              \* the clock, seconds since UNIX_EPOCH
    interval,         \* period of the timer in seconds (0: none)
    url,              \* the parsed push url (None: none)
    timer,            \* None, or the tokio Interval's next deadline
    spawned,          \* tokio::spawn was called
    hostPanic,        \* start_metrics_push_task panicked in its caller
    client,           \* identity of the current MetricsPushClient (0: none)
    built,            \* number of MetricsPushClient instances built
    inflight,         \* push_metrics calls in progress
    outstanding,      \* network requests in progress
    requests,         \* network requests issued since startup
    tickLog,          \* the ticks consumed: scheduled instant and wake-up time
    log,              \* the push attempts, in order
    gathered,         \* what registry.gather_all() returned to this attempt
    metric_families,  \* the attempt's families after stamping
    body              \* the compressed request body (None: none)

vars == << metrics_key_pair, registry, clients, buildFailed, taskStart,
           metrics_config, pc, now, interval, url, timer, spawned, hostPanic,
           client, built, inflight, outstanding, requests, tickLog, log,
           gathered, metric_families, body >>

taskVars == << metrics_key_pair, registry, metrics_config, interval, url,
              spawned, hostPanic >>

Init ==
    /\ metrics_key_pair = KeyPair
    /\ registry = Registry
    /\ clients = <<>>
    /\ buildFailed = FALSE
    /\ taskStart = None
    /\ metrics_config \in Configs
    /\ pc = "start"
    /\ now = 0
    /\ interval = 0
    /\ url = None
    /\ timer = None
    /\ spawned = FALSE
    /\ hostPanic = FALSE
    /\ client = 0
    /\ built = 0
    /\ inflight = 0
    /\ outstanding = 0
    /\ requests = 0
    /\ tickLog = <<>>
    /\ log = <<>>
    /\ gathered = <<>>
    /\ metric_families = <<>>
    /\ body = None

\* ---------------------------------------------------------------- actions
\* start_metrics_push_task up to and including tokio::spawn.
Start ==
    /\ pc = "start"
    /\ LET m == MatchConfig(metrics_config) IN
        IF m = None
        THEN /\ pc' = "returned"
             /\ UNCHANGED << interval, url, spawned, hostPanic, client,
                             built, clients, buildFailed >>
        ELSE IF ~UrlParse(m[1].url)
        THEN \* expect("unable to parse metrics push url")
             /\ pc' = "startup_panic"
             /\ hostPanic' = TRUE
             /\ UNCHANGED << interval, url, spawned, client, built, clients,
                             buildFailed >>
        ELSE \E buildOk \in BOOLEAN :
             /\ interval' = m[1].interval
             /\ url' = Some(m[1].url)
             /\ IF buildOk
                THEN /\ client' = built + 1
                     /\ built' = built + 1
                     /\ clients' = Append(clients,
                                          NewClient(metrics_key_pair, Len(clients)))
                     /\ spawned' = TRUE
                     /\ pc' = "spawned"
                     /\ UNCHANGED << hostPanic, buildFailed >>
                ELSE \* MetricsPushClient::new unwraps the builder's result
                     /\ pc' = "startup_panic"
                     /\ hostPanic' = TRUE
                     /\ buildFailed' = TRUE
                     /\ UNCHANGED << spawned, client, built, clients >>
    /\ UNCHANGED << metrics_key_pair, registry, metrics_config, taskStart,
                    now, timer, inflight, outstanding, requests, tickLog,
                    log, gathered, metric_families, body >>

\* The spawned task is polled for the first time: it creates the interval,
\* whose first tick is due at once.
TaskStart ==
    /\ pc = "spawned"
    /\ taskStart' = Some(now)
    /\ timer' = Some(FirstDeadline(now, interval))
    /\ pc' = "tick"
    /\ UNCHANGED << taskVars, now, client, built, clients, buildFailed,
                    inflight, outstanding, requests, tickLog, log, gathered,
                    metric_families, body >>

\* interval.tick().await: sleeps until the deadline, reschedules, returns.
Tick ==
    /\ TickReady(pc)
    /\ timer # None
    /\ LET t == Max(now, timer[1]) IN
        /\ t <= MaxTime
        /\ now' = t
        /\ timer' = Some(NextDeadline(timer[1], t, interval))
        /\ tickLog' = Append(tickLog, [instant |-> timer[1], at |-> t])
    /\ pc' = "push"
    /\ UNCHANGED << taskVars, taskStart, client, built, clients, buildFailed,
                    inflight, outstanding, requests, log, gathered,
                    metric_families, body >>

\* push_metrics, first part: take the time, gather and stamp.
Gather ==
    /\ pc = "push"
    /\ \E snapshot \in Snapshots :
        /\ gathered' = snapshot
        /\ metric_families' = Stamp(snapshot, now * MillisPerSec)
    /\ inflight' = inflight + 1
    /\ log' = Append(log, [start |-> now, end |-> -1, client |-> client,
                           now_ms |-> now * MillisPerSec, outcome |-> "running",
                           status |-> 0, reqs |-> 0, built |-> built,
                           steps |-> << "gather" >>, encoded |-> FALSE,
                           transport |-> "none", text |-> "none"])
    /\ pc' = "encode"
    /\ UNCHANGED << taskVars, taskStart, now, timer, client, built, clients,
                    buildFailed, outstanding, requests, tickLog, body >>

\* What an attempt saw of the network: how send().await ended, the status
\* of the response and how response.text().await ended.
Seen(transport, status, text) ==
    [transport |-> transport, status |-> status, text |-> text]

\* push_metrics returns and the loop body ends: an Err rebuilds the client.
Finish(outcome, seen) ==
    /\ log' = [log EXCEPT ![Len(log)] =
                  [@ EXCEPT !.end = now, !.outcome = outcome,
                            !.status = seen.status, !.transport = seen.transport,
                            !.text = seen.text, !.built = built]]
    /\ inflight' = inflight - 1
    /\ outstanding' = IF pc \in {"await_send", "read_body"}
                      THEN outstanding - 1 ELSE outstanding
    /\ gathered' = <<>>
    /\ metric_families' = <<>>
    /\ body' = None
    /\ IF NeedsRebuild(outcome)
       THEN \E buildOk \in BOOLEAN :
            IF buildOk
            THEN /\ client' = built + 1
                 /\ built' = built + 1
                 /\ clients' = Append(clients,
                                      NewClient(metrics_key_pair, Len(clients)))
                 /\ pc' = AfterRebuild(buildOk)
                 /\ UNCHANGED buildFailed
            ELSE \* MetricsPushClient::new unwraps: the task panics
                 /\ client' = 0
                 /\ built' = built
                 /\ clients' = clients
                 /\ buildFailed' = TRUE
                 /\ pc' = AfterRebuild(buildOk)
       ELSE /\ pc' = "tick"
            /\ UNCHANGED << client, built, clients, buildFailed >>
    /\ UNCHANGED << taskVars, taskStart, now, timer, requests, tickLog >>

\* push_metrics, second part: serialize and compress.
Encode ==
    /\ pc = "encode"
    /\ \E compressOk \in BOOLEAN :
        IF EncodeOk(metric_families) /\ compressOk
        THEN /\ body' = Some(CompressVec(WriteFamilies(metric_families)))
             /\ log' = [log EXCEPT ![Len(log)].steps = Append(@, "encode"),
                                   ![Len(log)].encoded = TRUE]
             /\ pc' = "send"
             /\ UNCHANGED << taskVars, taskStart, now, timer, client, built,
                             clients, buildFailed, inflight, outstanding,
                             requests, tickLog, gathered, metric_families >>
        ELSE Finish("encode", Seen("none", 0, "none"))

\* push_metrics, third part: the POST request is issued.
Send ==
    /\ pc = "send"
    /\ requests' = requests + 1
    /\ outstanding' = outstanding + 1
    /\ log' = [log EXCEPT ![Len(log)].steps = Append(@, "send"),
                          ![Len(log)].reqs = @ + 1]
    /\ pc' = "await_send"
    /\ UNCHANGED << taskVars, taskStart, now, timer, client, built, clients,
                    buildFailed, inflight, tickLog, gathered,
                    metric_families, body >>

\* send().await completes with an error or with a response.
SendCompletes ==
    /\ pc = "await_send"
    /\ \E r \in TransportResults :
        LET next == StepAfterSend(r) IN
        IF next = "Err" THEN Finish("transport", Seen(r.kind, 0, "none"))
        ELSE IF next = "Ok" THEN Finish("ok", Seen(r.kind, r.status, "none"))
        ELSE /\ pc' = next
             /\ log' = [log EXCEPT ![Len(log)].status = r.status,
                                   ![Len(log)].transport = r.kind]
             /\ UNCHANGED << taskVars, taskStart, now, timer, client, built,
                             clients, buildFailed, inflight, outstanding,
                             requests, tickLog, gathered, metric_families,
                             body >>

\* response.text().await of a non-success response; either way an Err.
ReadBody ==
    /\ pc = "read_body"
    /\ \E textOk \in BOOLEAN :
        Finish("status", Seen("response", Last(log).status,
                              IF textOk THEN "ok" ELSE "error"))

\* Time passes while the task is suspended.
Advance ==
    /\ pc \in {"spawned", "await_send", "read_body"}
    /\ now < MaxTime
    /\ now' = now + 1
    /\ UNCHANGED << taskVars, taskStart, pc, timer, client, built, clients,
                    buildFailed, inflight, outstanding, requests, tickLog,
                    log, gathered, metric_families, body >>

Next ==
    \/ Start
    \/ TaskStart
    \/ Tick
    \/ Gather
    \/ Encode
    \/ Send
    \/ SendCompletes
    \/ ReadBody
    \/ Advance

Spec == Init /\ [][Next]_vars

\* ------------------------------------------------------------ properties
Failures == {"encode", "transport", "status"}

TransportFailures == {"transport", "status"}

BadUrls == {RelativeUrl, NoHostUrl}

LoopStates == {"spawned", "tick", "push", "encode", "send", "await_send", "read_body"}

AtLoopTop == pc \in {"tick", "push"}

\* C1: after an attempt that failed with a transport error or a non-2xx
\* response, the client of the next attempt is an instance built after the
\* failed attempt ended, it is already current when the loop is back at the
\* tick, and no attempt ever uses a client that served an earlier failed
\* attempt.
C1_ReconnectOnFailure ==
    /\ \A k \in 1..Len(log) : \A j \in 1..(k - 1) :
          log[j].outcome \in TransportFailures => log[k].client # log[j].client
    /\ \A k \in 1..(Len(log) - 1) :
          log[k].outcome \in TransportFailures => log[k + 1].client > log[k].built
    /\ (AtLoopTop /\ log # <<>> /\ Last(log).outcome \in TransportFailures)
          => (client > Last(log).built /\ client # Last(log).client)

C1_Witness ==
    \E k \in 1..(Len(log) - 1) :
        /\ log[k].outcome = "status" /\ log[k].status = 500
        /\ log[k + 1].outcome = "ok" /\ log[k + 1].status = 200
        /\ log[k + 1].client # log[k].client

\* C2: at most one push attempt is in progress and at most one network
\* request is outstanding, however long a push lasts.
C2_AtMostOneInFlight == inflight <= 1 /\ outstanding <= 1

C2_Witness ==
    /\ inflight = 1
    /\ outstanding = 1
    /\ now > Last(log).start + interval

\* The first regular tick instant after time t.
NextRegular(t) ==
    tickLog[1].instant + ((t - tickLog[1].instant) \div interval + 1) * interval

\* Attempt k was still running when two or more later tick instants passed.
Overran(k) ==
    /\ k <= Len(log)
    /\ log[k].end # -1
    /\ log[k].end >= NextRegular(tickLog[k].at) + interval

\* C3: when a push overran two or more tick instants, the next tick is
\* consumed at the moment the push completes, and the tick after that is the
\* next regular tick instant and is not consumed before it: one attempt
\* stands for all the missed ticks.
C3_SkipNotQueue ==
    \A k \in 1..Len(tickLog) :
        Overran(k) =>
            /\ (k + 1 <= Len(tickLog) => tickLog[k + 1].at = log[k].end)
            /\ (k + 2 <= Len(tickLog) =>
                    /\ tickLog[k + 2].instant = NextRegular(tickLog[k + 1].at)
                    /\ tickLog[k + 2].at >= tickLog[k + 2].instant)

C3_Witness ==
    \E k \in 1..Len(tickLog) : Overran(k) /\ k + 2 <= Len(tickLog)

\* C4: whatever made an attempt fail, the loop goes on: once an attempt has
\* failed the task is still in its loop and the caller saw no panic.
C4_ErrorContainment ==
    (\E k \in 1..Len(log) : log[k].outcome \in Failures)
        => (pc \in LoopStates /\ ~hostPanic)

\* C5 as stated: after an attempt that failed with an encode error the current
\* client is the instance the attempt was given.
C5_EncodeErrorKeepsClient ==
    (AtLoopTop /\ log # <<>> /\ Last(log).outcome = "encode")
        => client = Last(log).client

\* C5 as amended: an encode error ends the attempt before any request is
\* issued and, like every other error, makes the loop replace the client by a
\* freshly built one before the next tick.
C5_EncodeErrorRebuildsClient ==
    \A k \in 1..Len(log) :
        log[k].outcome = "encode" =>
            /\ log[k].reqs = 0
            /\ log[k].steps = << "gather" >>
            /\ (k < Len(log) => log[k + 1].client > log[k].built)
            /\ (k = Len(log) /\ AtLoopTop =>
                    client > log[k].built /\ client # log[k].client)

C5_Witness ==
    \E k \in 1..(Len(log) - 1) :
        /\ log[k].outcome = "encode"
        /\ log[k + 1].outcome = "ok"
        /\ log[k + 1].client # log[k].client

\* C6: without a configuration the call returns and nothing was built, no
\* timer was created, no task was spawned and no push or request happens.
C6_NoOpWhenDisabled ==
    (metrics_config = None /\ pc # "start") =>
        /\ pc = "returned"
        /\ built = 0 /\ client = 0
        /\ timer = None
        /\ ~spawned /\ ~hostPanic
        /\ tickLog = <<>> /\ log = <<>>
        /\ requests = 0 /\ outstanding = 0

C6_Witness == metrics_config = None /\ pc = "returned"

\* C7: with a push_url that is not an absolute URL the call panics at startup
\* before a client is built or the task spawned; no tick and no push follows.
C7_FailFastOnBadUrl ==
    (metrics_config # None /\ pc # "start") =>
        (metrics_config[1].push_url \in BadUrls =>
            /\ pc = "startup_panic"
            /\ hostPanic
            /\ built = 0 /\ client = 0
            /\ ~spawned
            /\ timer = None
            /\ tickLog = <<>> /\ log = <<>>
            /\ requests = 0)

C7_Witness ==
    /\ metrics_config # None
    /\ pc = "startup_panic"
    /\ metrics_config[1].push_url = RelativeUrl

\* All samples of a sequence of families, flattened.
RECURSIVE SamplesOf(_)
SamplesOf(mfs) ==
    IF mfs = <<>> THEN <<>> ELSE mfs[1].metric \o SamplesOf(Tail(mfs))

\* The families the receiver decodes from the request body.
Decoded == ReadFamilies(DecompressVec(body[1]))

\* C8: every sample in the payload carries the one timestamp taken at the
\* start of the attempt, and the families, names, labels and values are those
\* that were gathered.
C8_TimestampNormalization ==
    body # None =>
        /\ Last(log).now_ms = Last(log).start * MillisPerSec
        /\ Len(Decoded) = Len(gathered)
        /\ \A i \in 1..Len(Decoded) :
              /\ Decoded[i].name = gathered[i].name
              /\ Len(Decoded[i].metric) = Len(gathered[i].metric)
              /\ \A j \in 1..Len(Decoded[i].metric) :
                    /\ Decoded[i].metric[j].timestamp_ms = Last(log).now_ms
                    /\ Decoded[i].metric[j].label = gathered[i].metric[j].label
                    /\ Decoded[i].metric[j].value = gathered[i].metric[j].value

C8_Witness ==
    /\ body # None
    /\ Len(gathered) = 2
    /\ now * MillisPerSec # Last(log).now_ms
    /\ \E i, j \in 1..Len(SamplesOf(gathered)) :
          SamplesOf(gathered)[i].timestamp_ms # SamplesOf(gathered)[j].timestamp_ms
    /\ \A i \in 1..Len(SamplesOf(gathered)) :
          SamplesOf(gathered)[i].timestamp_ms # Last(log).now_ms

\* C9: after a push that got a 2xx response the current client is the
\* instance the push used and no client was built; the next attempt uses it.
C9_SuccessKeepsClient ==
    \A k \in 1..Len(log) :
        log[k].outcome = "ok" =>
            /\ IsSuccess(log[k].status)
            /\ (k < Len(log) =>
                    log[k + 1].client = log[k].client /\ log[k + 1].built = log[k].built)
            /\ (k = Len(log) => client = log[k].client /\ built = log[k].built)

C9_Witness ==
    \E k \in 1..(Len(log) - 2) :
        /\ log[k].outcome = "ok"
        /\ log[k + 1].outcome = "ok"
        /\ log[k + 2].client = log[k].client

IsPrefix(s, t) == Len(s) <= Len(t) /\ \A i \in 1..Len(s) : s[i] = t[i]

\* C10: each tick consumed starts exactly one attempt; its steps are gather,
\* encode, send in this order; it issues at most one request, none when
\* encoding failed, so requests never outnumber ticks.
C10_OneAttemptPerTick ==
    /\ Len(log) = Len(tickLog) - (IF pc = "push" THEN 1 ELSE 0)
    /\ requests <= Len(tickLog)
    /\ \A k \in 1..Len(log) :
          /\ IsPrefix(log[k].steps, << "gather", "encode", "send" >>)
          /\ log[k].reqs <= 1
          /\ (log[k].outcome = "encode" => log[k].reqs = 0)
          /\ (log[k].outcome \in {"ok", "transport", "status"} =>
                  log[k].reqs = 1 /\ Len(log[k].steps) = 3)

C10_Witness ==
    /\ requests >= 1
    /\ requests < Len(tickLog)
    /\ \E k \in 1..Len(log) : log[k].outcome = "encode"
    /\ \E k \in 1..Len(log) : log[k].outcome = "transport"

\* C11: a finished attempt is a success exactly when it encoded, its request
\* completed with a response and the status is 2xx; a response with any
\* other status ends the attempt as a failure that carries the status,
\* whether or not the response body could be read.
C11_OutcomeClassification ==
    \A k \in 1..Len(log) :
        log[k].outcome # "running" =>
            /\ (log[k].outcome = "ok") <=>
                   (/\ log[k].encoded
                    /\ log[k].transport = "response"
                    /\ log[k].status \in 200..299)
            /\ (log[k].transport = "response" /\ log[k].status \notin 200..299) =>
                   (/\ log[k].outcome = "status"
                    /\ log[k].text \in {"ok", "error"})
            /\ (log[k].outcome = "encode") <=> ~log[k].encoded
            /\ (log[k].outcome = "transport") <=> (log[k].transport = "error")

C11_Witness ==
    /\ \E k \in 1..Len(log) :
          log[k].outcome = "status" /\ log[k].status = 500 /\ log[k].text = "error"
    /\ \E k \in 1..Len(log) : log[k].outcome = "ok" /\ log[k].status = 200
    /\ \E k \in 1..Len(log) : log[k].outcome = "transport"

\* The interval the configuration asks for.
ConfiguredInterval ==
    IF metrics_config[1].push_interval_seconds = None
    THEN 60
    ELSE metrics_config[1].push_interval_seconds[1]

\* C12: the period is the configured push_interval_seconds, or 60 seconds
\* without one, for the whole life of the task; whatever the attempts'
\* outcomes, tick instants stay on the grid of that period and the next
\* deadline is never more than one period after the last tick.
C12_FixedInterval ==
    spawned =>
        /\ interval = ConfiguredInterval
        /\ \A k \in 1..(Len(tickLog) - 1) :
              /\ tickLog[k + 1].instant > tickLog[k].instant
              /\ (tickLog[k + 1].instant - tickLog[k].instant) % ConfiguredInterval = 0
        /\ (timer # None /\ tickLog # <<>>) =>
              /\ timer[1] > Last(tickLog).at
              /\ timer[1] - Last(tickLog).at <= ConfiguredInterval
              /\ (timer[1] - tickLog[1].instant) % ConfiguredInterval = 0

C12_Witness ==
    /\ spawned
    /\ interval = 2
    /\ \E k \in 1..(Len(tickLog) - 2) :
          /\ log[k].outcome \in Failures
          /\ log[k + 1].outcome = "ok"
          /\ tickLog[k + 1].instant = tickLog[k].instant + 2
          /\ tickLog[k + 2].instant = tickLog[k + 1].instant + 2

\* The scheduler's states: Idle before the task runs, then WaitingTick and
\* Pushing.
Idle == {"start", "spawned"}

WaitingTick == {"tick"}

Pushing == {"push", "encode", "send", "await_send", "read_body"}

\* C13: once the task has taken its first tick the scheduler is always in
\* WaitingTick or Pushing: it never returns to Idle and never stops.
C13_StateMachine ==
    tickLog # <<>> => pc \in WaitingTick \cup Pushing

\* C14: every client built is derived from the private key supplied at
\* startup and has a certificate and a transport no earlier client had; the
\* current client is one of them; the key, the registry handle and the
\* parsed url are the ones supplied at startup after any number of attempts
\* and rebuilds.
C14_SameKeyFreshCertificate ==
    /\ metrics_key_pair = KeyPair
    /\ registry = Registry
    /\ spawned => url = Some(metrics_config[1].push_url)
    /\ built = Len(clients)
    /\ client \in 0..Len(clients)
    /\ \A i \in 1..Len(clients) :
          /\ clients[i].private_key = KeyPair.private
          /\ \A j \in 1..(i - 1) :
                /\ clients[i].certificate # clients[j].certificate
                /\ clients[i].transport # clients[j].transport

C14_Witness ==
    /\ pc = "tick"
    /\ Len(clients) = 3
    /\ client = 3
    /\ Len(log) = 3
    /\ log[3].outcome = "ok"

\* The attempts that ended with an error of any kind.
FailedAttempts == {k \in 1..Len(log) : log[k].outcome \in Failures}

\* C15: whenever the scheduler waits for a tick, the clients built since
\* startup are the initial one plus one for every attempt that ended with an
\* error, of whatever kind.
C15_ClientCount ==
    pc = "tick" => built = 1 + Cardinality(FailedAttempts)

C15_Witness ==
    /\ pc = "tick"
    /\ built = 3
    /\ \E k \in 1..Len(log) : log[k].outcome = "encode"
    /\ \E k \in 1..Len(log) : log[k].outcome = "transport"
    /\ \E k \in 1..Len(log) : log[k].outcome = "ok"

\* A step of the background task's loop.
TaskStep == Tick \/ Gather \/ Encode \/ Send \/ SendCompletes \/ ReadBody

\* C16: a client build that fails after a failed push ends the background
\* task: no tick is consumed and no attempt made from then on, and the
\* caller, which has returned, sees no panic.  A failure of the initial build
\* is a panic in the caller, before the task is spawned.
C16_RebuildFailureTerminal ==
    buildFailed =>
        IF spawned
        THEN /\ pc = "task_panic"
             /\ ~hostPanic
             /\ log # <<>>
             /\ Last(log).outcome \in Failures
             /\ Len(tickLog) = Len(log)
             /\ inflight = 0 /\ outstanding = 0
             /\ ~ENABLED TaskStep
        ELSE /\ pc = "startup_panic"
             /\ hostPanic
             /\ timer = None
             /\ clients = <<>>
             /\ tickLog = <<>> /\ log = <<>>

C16_Witness ==
    /\ buildFailed
    /\ pc = "task_panic"
    /\ Len(log) = 2
    /\ log[1].outcome = "ok"
    /\ timer[1] <= MaxTime

\* C17: the first tick is consumed at the moment the task starts and the
\* first attempt is made then, with the initial client; a tick taken on time
\* whose attempt ends within the period is followed by a tick exactly one
\* period later, and a tick after a longer attempt comes as soon as that
\* attempt ends.
C17_FirstPushImmediate ==
    /\ tickLog # <<>> =>
          tickLog[1].instant = taskStart[1] /\ tickLog[1].at = taskStart[1]
    /\ log # <<>> => log[1].start = taskStart[1] /\ log[1].client = 1
    /\ \A k \in 1..(Len(tickLog) - 1) :
          IF log[k].end <= NextRegular(tickLog[k].at)
          THEN /\ tickLog[k + 1].at = NextRegular(tickLog[k].at)
               /\ tickLog[k].at = tickLog[k].instant =>
                      tickLog[k + 1].at = tickLog[k].at + interval
          ELSE tickLog[k + 1].at = log[k].end

C17_Witness ==
    /\ taskStart # None
    /\ taskStart[1] > 0
    /\ Len(log) = 3
    /\ log[1].start = taskStart[1]
    /\ log[2].start = log[1].start + interval
    /\ log[2].end > log[2].start + interval
    /\ log[3].start = log[2].end

====
